---------------------------- MODULE Spec2Model ----------------------------
(***************************************************************************)
(* ChunkManager of p2p-media-loader-hlsjs (lib/chunk-manager.ts): the      *)
(* playlist registry, the chunk locator, the swarm resolver, the play      *)
(* queue, the single active chunk request and the correlation of the       *)
(* loader's FileLoaded / FileError / FileAbort events with it.             *)
(*                                                                         *)
(* Strings are sequences of one-character strings, so that lastIndexOf,    *)
(* substring and concatenation are computed as the code computes them.     *)
(***************************************************************************)
EXTENDS Integers, Sequences, FiniteSets, TLC

VARIABLES
    playlists,    \* this.playlists: Map<string, Playlist>, in insertion order
    chunk,        \* this.chunk: the active Chunk, or Undefined
    prevLoadUrl,  \* this.prevLoadUrl
    playQueue,    \* this.playQueue
    calls,        \* the loadChunk calls issued so far (url, callbacks, retries)
    invoked,      \* per call: the callbacks invoked so far, in order
    attempts,     \* per call: how many retry timers have re-run loadChunk
    fate,         \* per call: what became of its request
    timers,       \* pending setTimeout callbacks
    fetches,      \* pending Utils.fetchContent promises
    thrown,       \* errors loadHlsPlaylist threw to its caller
    abortedUrls,  \* urls cleared by abortChunk and not activated again since
    track,        \* the last located request, for consecutive-request claims
    nProcess,     \* how many manifests have been processed
    nLoads,       \* how many loadHlsPlaylist calls have been made
    raised,       \* what the step just taken threw to its caller, if anything
    out           \* the loader.load calls made by the step just taken

vars == <<playlists, chunk, prevLoadUrl, playQueue, calls, invoked, attempts,
          fate, timers, fetches, thrown, abortedUrls, track, nProcess,
          nLoads, raised, out>>

-----------------------------------------------------------------------------
(* Bounds of the model.                                                    *)

MaxCalls == 2

MaxPlayCalls == 3

MaxProcess == 2

MaxLoads == 1

MaxManifests == 2

MaxRetries == 1

MaxSwitches == 3

\* loadChunk's default for playlistMissRetries
DefaultRetries == 1

\* An optional value is a sequence of at most one element; undefined is the
\* empty one.  A url is a string, and the empty string is as falsy as undefined.
Undefined == <<>>

Some(x) == <<x>>

Get(o) == o[1]

\* the element of a one-element set; { f(v) : v \in {e} } computes e once
Eval(S) == CHOOSE x \in S : TRUE

-----------------------------------------------------------------------------
(* Strings.                                                                *)

Max(a, b) == IF a >= b THEN a ELSE b

\* s.lastIndexOf(c), 0-based, -1 when absent
LastIndexOf(s, c) ==
    LET hits == {i \in 1..Len(s) : s[i] = c}
    IN  IF hits = {} THEN -1
        ELSE (CHOOSE i \in hits : \A j \in hits : j <= i) - 1

\* s.substring(0, n)
Substring0(s, n) == SubSeq(s, 1, n)

\* whether t occurs in s as a contiguous substring
Contains(s, t) ==
    \E i \in 0..(Len(s) - Len(t)) : SubSeq(s, i + 1, i + Len(t)) = t

Digit(d) == <<"0", "1", "2", "3", "4", "5", "6", "7", "8", "9">>[d + 1]

\* "" + i for a non-negative integer i
RECURSIVE NumToStr(_)
NumToStr(i) == IF i < 10 THEN <<Digit(i)>>
               ELSE NumToStr(i \div 10) \o <<Digit(i % 10)>>

SchemeSep == <<":", "/", "/">>

\* Utils.isAbsoluteUrl: a scheme separator is present
isAbsoluteUrl(uri) == Contains(uri, SchemeSep)

-----------------------------------------------------------------------------
(* URLs, manifest texts and what the m3u8 parser makes of them.            *)

Root == <<"s", ":", "/", "/">>

MasterUrl == Root \o <<"m">>

VariantUrl == Root \o <<"v">>

DeepUrl == Root \o <<"d", "/", "w">>

\* a playlist url without any path separator
BareUrl == <<"m">>

PlaylistUrls == {MasterUrl, VariantUrl, DeepUrl, BareUrl}

Seg(name) == [uri |-> name]

\* parser.manifest for each manifest text; a media manifest has no
\* playlists attribute, a master manifest has no segments
Parse(content) ==
    CASE content = "master" ->
           [segments |-> <<>>,
            playlists |-> Some(<<Seg(<<"v">>), Seg(<<"d", "/", "w">>),
                                 Seg(<<"v">>)>>)]
      [] content = "media" ->
           [segments |-> <<Seg(<<"0">>), Seg(<<"1">>), Seg(<<"2">>)>>,
            playlists |-> Undefined]
      [] content = "mixed" ->
           [segments |-> <<Seg(Root \o <<"0">>), Seg(<<"1">>), Seg(<<"1">>)>>,
            playlists |-> Undefined]

Contents == {"master", "media", "mixed"}

-----------------------------------------------------------------------------
(* class Playlist                                                          *)

\* whether the constructor throws "Unexpected playlist URL format"
PlaylistThrows(url) == LastIndexOf(url, "/") = -1

\* new Playlist(url, manifest), for a url the constructor accepts
NewPlaylist(url, manifest) ==
    [url |-> url,
     manifest |-> manifest,
     baseUrl |-> Substring0(url, LastIndexOf(url, "/") + 1)]

getChunkAbsoluteUrl(playlist, index) ==
    LET uri == playlist.manifest.segments[index + 1].uri
    IN  IF isAbsoluteUrl(uri) THEN uri ELSE playlist.baseUrl \o uri

\* the last index whose absolute url is url, or -1
getChunkIndexLast(playlist, url) ==
    LET n == Len(playlist.manifest.segments)
        hits == {i \in 0..(n - 1) : url = getChunkAbsoluteUrl(playlist, i)}
    IN  IF hits = {} THEN -1
        ELSE CHOOSE i \in hits : \A j \in hits : i >= j

\* the first index whose absolute url is url, or -1
getChunkIndex(playlist, url) ==
    LET n == Len(playlist.manifest.segments)
        hits == {i \in 0..(n - 1) : url = getChunkAbsoluteUrl(playlist, i)}
    IN  IF hits = {} THEN -1
        ELSE CHOOSE i \in hits : \A j \in hits : i <= j

getChildPlaylistAbsoluteUrls(playlist) ==
    IF playlist.manifest.playlists = Undefined THEN <<>>
    ELSE [k \in 1..Len(Get(playlist.manifest.playlists)) |->
            LET url == Get(playlist.manifest.playlists)[k].uri
            IN  IF isAbsoluteUrl(url) THEN url ELSE playlist.baseUrl \o url]

-----------------------------------------------------------------------------
(* this.playlists: a Map keeps its keys in insertion order; set() on a     *)
(* present key replaces the value in place.                                *)

MapHas(pls, url) == \E k \in 1..Len(pls) : pls[k].url = url

MapSet(pls, playlist) ==
    IF MapHas(pls, playlist.url)
    THEN [k \in 1..Len(pls) |->
            IF pls[k].url = playlist.url THEN playlist ELSE pls[k]]
    ELSE Append(pls, playlist)

MapDelete(pls, url) == SelectSeq(pls, LAMBDA p : p.url # url)

MapGet(pls, url) ==
    IF MapHas(pls, url)
    THEN Some(pls[CHOOSE k \in 1..Len(pls) : pls[k].url = url])
    ELSE Undefined

-----------------------------------------------------------------------------
(* class ChunkManager: the private helpers                                 *)

\* a falsy url is never located
getChunkLocation(pls, url) ==
    LET hits == {k \in 1..Len(pls) : getChunkIndex(pls[k], url) >= 0}
    IN  IF url = Undefined \/ hits = {}
        THEN [playlist |-> Undefined, chunkIndex |-> -1]
        ELSE LET k == CHOOSE k \in hits : \A j \in hits : k <= j
             IN  [playlist |-> Some(pls[k]),
                  chunkIndex |-> getChunkIndex(pls[k], url)]

\* the first playlist whose manifest has a playlists attribute
getMasterPlaylist(pls) ==
    LET hits == {k \in 1..Len(pls) : pls[k].manifest.playlists # Undefined}
    IN  IF hits = {} THEN Undefined
        ELSE Some(pls[CHOOSE k \in hits : \A j \in hits : k <= j])

\* a swarm id that ignores the master playlist
getSwarmIdOwnUrl(pls, playlist) == playlist.url

getSwarmId(pls, playlist) ==
    LET master == getMasterPlaylist(pls)
    IN  IF master # Undefined /\ Get(master).url # playlist.url
        THEN LET urls == getChildPlaylistAbsoluteUrls(Get(master))
                 hits == {i \in 0..(Len(urls) - 1) : urls[i + 1] = playlist.url}
             IN  IF hits = {} THEN playlist.url
                 ELSE Get(master).url \o <<"+">>
                        \o NumToStr(CHOOSE i \in hits : \A j \in hits : i <= j)
        ELSE playlist.url

\* a base that counts every queued chunk
PriorityBaseUnclamped(queue) == Len(queue)

\* priority of the first descriptor of a batch
PriorityBase(queue) == Max(0, Len(queue) - 1)

\* the LoaderFile descriptors loadFiles builds
BatchFiles(playlist, chunkIndex, queue) ==
    LET n == Len(playlist.manifest.segments)
    IN  [k \in 1..(n - chunkIndex) |->
            [url |-> getChunkAbsoluteUrl(playlist, chunkIndex + k - 1),
             priority |-> PriorityBase(queue) + k - 1]]

\* loadFiles: one loader.load(files, swarmId, loadUrl) call
loadFiles(w, playlist, chunkIndex, loadUrl) ==
    Eval({[v EXCEPT !.out = Append(@,
             [files |-> BatchFiles(playlist, chunkIndex, v.playQueue),
              swarmId |-> getSwarmId(v.playlists, playlist),
              loadUrl |-> loadUrl])] : v \in {w}})

-----------------------------------------------------------------------------
(* The manager's state gathered in one record, so that a handler and the   *)
(* calls made from inside it compose.                                      *)

World ==
    [playlists |-> playlists, chunk |-> chunk, prevLoadUrl |-> prevLoadUrl,
     playQueue |-> playQueue, calls |-> calls, invoked |-> invoked,
     attempts |-> attempts, fate |-> fate, timers |-> timers,
     abortedUrls |-> abortedUrls, track |-> track, raised |-> Undefined,
     out |-> <<>>]

\* a callback of call id is invoked with what
Invoke(w, id, what) ==
    [w EXCEPT !.invoked[id] = IF Len(@) >= 2 THEN @ ELSE Append(@, what)]

NotFoundMessage == "Requested chunk cannot be located in known playlists"

AbortMessage == "Loading aborted"

\* a check that always starts the play queue afresh
QueueCleared(pls, queue, loadingChunkIndex) == <<>>

\* a check that never starts the play queue afresh
QueueKept(pls, queue, loadingChunkIndex) == queue

\* a check that also starts afresh when the last loaded url is not found
QueueStrict(pls, queue, loadingChunkIndex) ==
    IF Len(queue) > 0
       /\ getChunkLocation(pls, queue[Len(queue)]).chunkIndex
            # loadingChunkIndex - 1
    THEN <<>>
    ELSE queue

\* the continuity check of loadChunk on the play queue
QueueAfterRequest(pls, queue, loadingChunkIndex) ==
    IF Len(queue) > 0
    THEN LET prev == getChunkLocation(pls, queue[Len(queue)])
         IN  IF prev.playlist # Undefined
                /\ prev.chunkIndex # loadingChunkIndex - 1
             THEN <<>>
             ELSE queue
    ELSE queue

\* a miss that reports to onError before loadChunk returns
loadChunkMissSync(w, id, playlistMissRetries) ==
    IF playlistMissRetries > 0
    THEN [w EXCEPT
            !.timers = @ \cup {[kind |-> "retry", id |-> id,
                                retries |-> playlistMissRetries - 1]},
            !.fate[id] = "retrying",
            !.track = Undefined]
    ELSE [w EXCEPT
            !.invoked[id] = IF w.calls[id].onError
                            THEN Append(@, NotFoundMessage) ELSE @,
            !.fate[id] = "notfound",
            !.track = Undefined]

\* a miss that gives up one retry early
loadChunkMissEarly(w, id, playlistMissRetries) ==
    IF playlistMissRetries > 1
    THEN [w EXCEPT
            !.timers = @ \cup {[kind |-> "retry", id |-> id,
                                retries |-> playlistMissRetries - 1]},
            !.fate[id] = "retrying",
            !.track = Undefined]
    ELSE [w EXCEPT
            !.timers = IF w.calls[id].onError
                       THEN @ \cup {[kind |-> "error", id |-> id, retries |-> 0]}
                       ELSE @,
            !.fate[id] = "notfound",
            !.track = Undefined]

\* loadChunk when the url is in no known playlist
loadChunkMiss(w, id, playlistMissRetries) ==
    IF playlistMissRetries > 0
    THEN [w EXCEPT
            !.timers = @ \cup {[kind |-> "retry", id |-> id,
                                retries |-> playlistMissRetries - 1]},
            !.fate[id] = "retrying",
            !.track = Undefined]
    ELSE [w EXCEPT
            !.timers = IF w.calls[id].onError
                       THEN @ \cup {[kind |-> "error", id |-> id, retries |-> 0]}
                       ELSE @,
            !.fate[id] = "notfound",
            !.track = Undefined]

\* a request that gives way to the active one
NewChunkKeepsOld(w, id) ==
    IF w.chunk # Undefined THEN w.chunk
    ELSE Some([url |-> w.calls[id].url, id |-> id])

\* the request that takes the place of the active one
NewChunk(w, id) == Some([url |-> w.calls[id].url, id |-> id])

\* loadChunk when the url is at loc
loadChunkHit(w, id, loc) ==
    LET url == w.calls[id].url
        queue == QueueAfterRequest(w.playlists, w.playQueue, loc.chunkIndex)
        w1 == [w EXCEPT
                 !.playQueue = queue,
                 !.fate = [c \in DOMAIN @ |->
                             IF c = id THEN "active"
                             ELSE IF w.chunk # Undefined /\ Get(w.chunk).id = c
                                     /\ @[c] = "active"
                                  THEN "superseded"
                                  ELSE @[c]],
                 !.chunk = NewChunk(w, id),
                 !.abortedUrls = @ \ {url},
                 !.track = Some([playlist |-> Get(loc.playlist).url,
                                 chunkIndex |-> loc.chunkIndex,
                                 base |-> PriorityBase(queue),
                                 stage |-> "requested"])]
    IN  Eval({[w2 EXCEPT !.prevLoadUrl = url] :
                w2 \in {loadFiles(w1, Get(loc.playlist), loc.chunkIndex, url)}})

\* loadChunk(url, onSuccess, onError, playlistMissRetries) of call id
loadChunk(w, id, playlistMissRetries) ==
    Eval({IF p[2].playlist = Undefined
          THEN loadChunkMiss(p[1], id, playlistMissRetries)
          ELSE loadChunkHit(p[1], id, p[2]) :
            p \in {<<w, getChunkLocation(w.playlists, w.calls[id].url)>>}})

\* Array.indexOf, 0-based
IndexOf(seq, x) ==
    LET hits == {i \in 1..Len(seq) : seq[i] = x}
    IN  IF hits = {} THEN -1
        ELSE (CHOOSE i \in hits : \A j \in hits : i <= j) - 1

\* a setCurrentChunk that goes on without a url
setCurrentChunkAlways(w, url) ==
    LET urlIndex == IF url = Undefined THEN -1 ELSE IndexOf(w.playQueue, url)
        w1 == IF urlIndex < 0 THEN w
              ELSE [w EXCEPT !.playQueue = SubSeq(@, urlIndex + 1, Len(@))]
        loc == getChunkLocation(w1.playlists, w1.prevLoadUrl)
    IN  IF w1.prevLoadUrl # Undefined /\ loc.playlist # Undefined
        THEN loadFiles(w1, Get(loc.playlist), loc.chunkIndex, Undefined)
        ELSE w1

\* a setCurrentChunk that also drops the chunk being played
setCurrentChunkSkips(w, url) ==
    IF url = Undefined
    THEN w
    ELSE LET urlIndex == IndexOf(w.playQueue, url)
             w1 == IF urlIndex < 0 THEN w
                   ELSE [w EXCEPT !.playQueue =
                           SubSeq(@, urlIndex + 2, Len(@))]
             loc == getChunkLocation(w1.playlists, w1.prevLoadUrl)
         IN  IF w1.prevLoadUrl # Undefined /\ loc.playlist # Undefined
             THEN loadFiles(w1, Get(loc.playlist), loc.chunkIndex, Undefined)
             ELSE w1

setCurrentChunk(w, url) ==
    IF url = Undefined
    THEN w
    ELSE LET urlIndex == IndexOf(w.playQueue, url)
             w1 == IF urlIndex < 0 THEN w
                   ELSE [w EXCEPT !.playQueue =
                           SubSeq(@, urlIndex + 1, Len(@))]
             loc == getChunkLocation(w1.playlists, w1.prevLoadUrl)
         IN  IF w1.prevLoadUrl # Undefined /\ loc.playlist # Undefined
             THEN loadFiles(w1, Get(loc.playlist), loc.chunkIndex, Undefined)
             ELSE w1

\* an abort that leaves the request in place
abortChunkIgnored(w, url) == w

abortChunk(w, url) ==
    IF w.chunk # Undefined /\ Get(w.chunk).url = url
    THEN [w EXCEPT !.chunk = Undefined,
                   !.fate[Get(w.chunk).id] = "aborted",
                   !.abortedUrls = @ \cup {url}]
    ELSE w

-----------------------------------------------------------------------------
(* Callbacks.  A caller's onSuccess / onError may itself ask for the next  *)
(* chunk before it returns: react is the url it asks for, or Undefined.    *)

NewCall(w, url, onSuccess, onError, retries) ==
    [w EXCEPT !.calls = Append(@, [url |-> url, onSuccess |-> onSuccess,
                                   onError |-> onError, retries |-> retries]),
              !.invoked = Append(@, <<>>),
              !.attempts = Append(@, 0),
              !.fate = Append(@, "issued")]

\* the body of a callback that calls loadChunk(react, onSuccess, onError)
Callback(w, react) ==
    IF react = Undefined THEN w
    ELSE loadChunk(NewCall(w, react, TRUE, TRUE, DefaultRetries),
                   Len(w.calls) + 1, DefaultRetries)

\* a handler that leaves this.chunk in place
ClearChunkKept(w, id) == w

\* this.chunk = undefined at the end of a handler that ran for call id
ClearChunk(w, id) ==
    Eval({[v EXCEPT !.chunk = Undefined,
                    !.fate = [c \in DOMAIN @ |->
                                IF v.chunk # Undefined /\ Get(v.chunk).id = c
                                   /\ c # id
                                THEN "clobbered" ELSE @[c]]] : v \in {w}})

\* a test that takes any event for the awaited one
MatchesAny(w, url) == w.chunk # Undefined

Matches(w, url) == w.chunk # Undefined /\ Get(w.chunk).url = url

\* a handler that forgets to record the loaded chunk
onFileLoadedUnqueued(w, url, react) ==
    IF Matches(w, url)
    THEN LET id == Get(w.chunk).id
             w1 == [w EXCEPT !.fate[id] = "succeeded", !.track = Undefined]
             w2 == IF w.calls[id].onSuccess
                   THEN Callback(Invoke(w1, id, "success"), react)
                   ELSE w1
         IN  ClearChunk(w2, id)
    ELSE [w EXCEPT !.track = Undefined]

onFileLoaded(w, url, react) ==
    IF Matches(w, url)
    THEN LET id == Get(w.chunk).id
             w1 == [w EXCEPT
                      !.playQueue = Append(@, url),
                      !.fate[id] = "succeeded",
                      !.track = IF @ # Undefined /\ Get(@).stage = "requested"
                                THEN Some([Get(@) EXCEPT !.stage = "loaded"])
                                ELSE Undefined]
             w2 == IF w.calls[id].onSuccess
                   THEN Callback(Invoke(w1, id, "success"), react)
                   ELSE w1
         IN  ClearChunk(w2, id)
    ELSE [w EXCEPT !.track = Undefined]

\* a handler that clears the request without telling the caller
onFileFailedSilent(w, url, detail, react) ==
    IF Matches(w, url)
    THEN ClearChunk([w EXCEPT !.fate[Get(w.chunk).id] = "failed",
                              !.track = Undefined], Get(w.chunk).id)
    ELSE [w EXCEPT !.track = Undefined]

\* onFileError passes the error on, onFileAbort passes AbortMessage
onFileFailed(w, url, detail, react) ==
    IF Matches(w, url)
    THEN LET id == Get(w.chunk).id
             w1 == [w EXCEPT !.fate[id] = "failed", !.track = Undefined]
             w2 == IF w.calls[id].onError
                   THEN Callback(Invoke(w1, id, detail), react)
                   ELSE w1
         IN  ClearChunk(w2, id)
    ELSE [w EXCEPT !.track = Undefined]

onFileError(w, url, react) == onFileFailed(w, url, "error", react)

onFileAbort(w, url, react) == onFileFailed(w, url, AbortMessage, react)

FormatMessage == "Unexpected playlist URL format"

\* a processHlsPlaylist that stores the playlist whatever its url
processHlsPlaylistUnchecked(w, url, content) ==
    [w EXCEPT !.playlists = MapSet(@, NewPlaylist(url, Parse(content)))]

\* processHlsPlaylist: the Playlist constructor throws before anything is
\* stored, or the playlist is stored under its url
processHlsPlaylist(w, url, content) ==
    IF PlaylistThrows(url) THEN [w EXCEPT !.raised = Some(FormatMessage)]
    ELSE [w EXCEPT !.playlists = MapSet(@, NewPlaylist(url, Parse(content)))]

\* an exception that a catch block or a promise takes
Caught(w) == [w EXCEPT !.raised = Undefined]

\* a catch block that only rethrows
loadFailedKept(w, url) == w

\* the catch block of loadHlsPlaylist
loadFailed(w, url) == [w EXCEPT !.playlists = MapDelete(@, url)]

-----------------------------------------------------------------------------
(* The state machine.                                                      *)

SegmentUrls == {Root \o <<"0">>, Root \o <<"1">>, Root \o <<"d", "/", "1">>}

\* a url that no manifest lists
StrayUrl == Root \o <<"9">>

ChunkUrls == SegmentUrls \cup {StrayUrl}

Init ==
    /\ playlists = <<>>
    /\ chunk = Undefined
    /\ prevLoadUrl = Undefined
    /\ playQueue = <<>>
    /\ calls = <<>>
    /\ invoked = <<>>
    /\ attempts = <<>>
    /\ fate = <<>>
    /\ timers = {}
    /\ fetches = <<>>
    /\ thrown = {}
    /\ abortedUrls = {}
    /\ track = Undefined
    /\ nProcess = 0
    /\ nLoads = 0
    /\ raised = Undefined
    /\ out = <<>>

\* the manager's part of the next state, from the record a handler returns
Commit(w) ==
    \E x \in {w} :
        /\ playlists' = x.playlists
        /\ chunk' = x.chunk
        /\ prevLoadUrl' = x.prevLoadUrl
        /\ playQueue' = x.playQueue
        /\ calls' = x.calls
        /\ invoked' = x.invoked
        /\ attempts' = x.attempts
        /\ fate' = x.fate
        /\ timers' = x.timers
        /\ abortedUrls' = x.abortedUrls
        /\ track' = x.track
        /\ raised' = x.raised
        /\ out' = x.out

\* the state a handler starts from; only a loaded event continues a track
Fresh == [World EXCEPT !.track = Undefined]

\* a callback may react only if it is invoked and a call is left
MayReact(id, isError, react) ==
    \/ react = Undefined
    \/ /\ Len(calls) < MaxCalls
       /\ IF isError THEN calls[id].onError ELSE calls[id].onSuccess

LoadChunk(url, onSuccess, onError, retriesArg) ==
    /\ LET id == Len(calls) + 1
           retries == IF retriesArg = Undefined THEN DefaultRetries
                      ELSE Get(retriesArg)
           w == loadChunk(NewCall(Fresh, url, onSuccess, onError, retries),
                          id, retries)
       IN  Commit(w)
    /\ UNCHANGED <<fetches, thrown, nProcess, nLoads>>

RetryTimer(t) ==
    /\ t \in timers /\ t.kind = "retry"
    /\ LET w0 == [Fresh EXCEPT !.timers = @ \ {t},
                               !.attempts[t.id] = @ + 1]
           w == loadChunk(w0, t.id, t.retries)
       IN  Commit(w)
    /\ UNCHANGED <<fetches, thrown, nProcess, nLoads>>

ErrorTimer(t, react) ==
    /\ t \in timers /\ t.kind = "error"
    /\ MayReact(t.id, TRUE, react)
    /\ LET w0 == [Fresh EXCEPT !.timers = @ \ {t}]
           w == Callback(Invoke(w0, t.id, NotFoundMessage), react)
       IN  Commit(w)
    /\ UNCHANGED <<fetches, thrown, nProcess, nLoads>>

SetCurrentChunk(url) ==
    /\ Commit(setCurrentChunk(Fresh, url))
    /\ UNCHANGED <<fetches, thrown, nProcess, nLoads>>

AbortChunk(url) ==
    /\ Commit(abortChunk(Fresh, url))
    /\ UNCHANGED <<fetches, thrown, nProcess, nLoads>>

ActiveId == IF chunk = Undefined THEN 0 ELSE Get(chunk).id

FileLoaded(url, react) ==
    /\ IF Matches(World, url) THEN MayReact(ActiveId, FALSE, react)
       ELSE react = Undefined
    /\ Commit(onFileLoaded(World, url, react))
    /\ UNCHANGED <<fetches, thrown, nProcess, nLoads>>

FileError(url, react) ==
    /\ IF Matches(World, url) THEN MayReact(ActiveId, TRUE, react)
       ELSE react = Undefined
    /\ Commit(onFileError(Fresh, url, react))
    /\ UNCHANGED <<fetches, thrown, nProcess, nLoads>>

FileAbort(url, react) ==
    /\ IF Matches(World, url) THEN MayReact(ActiveId, TRUE, react)
       ELSE react = Undefined
    /\ Commit(onFileAbort(Fresh, url, react))
    /\ UNCHANGED <<fetches, thrown, nProcess, nLoads>>

ProcessHlsPlaylist(url, content) ==
    /\ Commit(processHlsPlaylist(Fresh, url, content))
    /\ nProcess' = nProcess + 1
    /\ UNCHANGED <<fetches, thrown, nLoads>>

\* loadHlsPlaylist up to its await
LoadHlsPlaylist(url, loadChildPlaylists) ==
    /\ nLoads < MaxLoads
    /\ nLoads' = nLoads + 1
    /\ fetches' = Append(fetches, [url |-> url, top |-> TRUE,
                                   loadChildPlaylists |-> loadChildPlaylists])
    /\ Commit(Fresh)
    /\ UNCHANGED <<thrown, nProcess>>

Remove(seq, k) == SubSeq(seq, 1, k - 1) \o SubSeq(seq, k + 1, Len(seq))

ChildFetches(pls, url) ==
    LET playlist == MapGet(pls, url)
    IN  IF playlist = Undefined THEN <<>>
        ELSE LET urls == getChildPlaylistAbsoluteUrls(Get(playlist))
             IN  [k \in 1..Len(urls) |->
                    [url |-> urls[k], top |-> FALSE,
                     loadChildPlaylists |-> FALSE]]

\* throw e: the url, and whether the catch block found an entry to delete
Thrown(url) == [url |-> url, had |-> MapHas(playlists, url)]

\* fetchContent resolves: loadHlsPlaylist resumes, or a child's then() runs
FetchResolved(k, content) ==
    /\ k \in 1..Len(fetches)
    /\ LET f == fetches[k]
           threw == PlaylistThrows(f.url)
           w1 == processHlsPlaylist(Fresh, f.url, content)
           w == Caught(IF f.top /\ threw THEN loadFailed(w1, f.url) ELSE w1)
       IN  /\ Commit(w)
           /\ thrown' = IF f.top /\ threw THEN thrown \cup {Thrown(f.url)}
                        ELSE thrown
           /\ fetches' = Remove(fetches, k) \o
                           (IF f.top /\ ~threw /\ f.loadChildPlaylists
                            THEN ChildFetches(w.playlists, f.url) ELSE <<>>)
    /\ nProcess' = nProcess + 1
    /\ UNCHANGED nLoads

\* fetchContent rejects: the catch block runs, or a child's rejection is lost
FetchRejected(k) ==
    /\ k \in 1..Len(fetches)
    /\ LET f == fetches[k]
           w == IF f.top THEN loadFailed(Fresh, f.url) ELSE Fresh
       IN  /\ Commit(w)
           /\ thrown' = IF f.top THEN thrown \cup {Thrown(f.url)} ELSE thrown
           /\ fetches' = Remove(fetches, k)
    /\ UNCHANGED <<nProcess, nLoads>>

Reactions == {Undefined} \cup ChunkUrls

\* playlistMissRetries: omitted, or given
RetryArgs == {Undefined} \cup {Some(n) : n \in 0..MaxRetries}

NextChunks ==
    \/ \E url \in ChunkUrls, callbacks \in BOOLEAN, retriesArg \in RetryArgs :
          Len(calls) < MaxCalls /\ LoadChunk(url, callbacks, callbacks, retriesArg)
    \/ \E t \in timers : RetryTimer(t)
    \/ \E t \in timers, react \in Reactions : ErrorTimer(t, react)
    \/ \E url \in {Undefined} \cup ChunkUrls : SetCurrentChunk(url)
    \/ \E url \in ChunkUrls : AbortChunk(url)
    \/ \E url \in ChunkUrls, react \in Reactions : FileLoaded(url, react)
    \/ \E url \in ChunkUrls, react \in Reactions : FileError(url, react)
    \/ \E url \in ChunkUrls, react \in Reactions : FileAbort(url, react)

NextPlaylists ==
    \/ \E url \in PlaylistUrls, content \in Contents :
          nProcess < MaxManifests /\ ProcessHlsPlaylist(url, content)
    \/ \E url \in PlaylistUrls, loadChildPlaylists \in BOOLEAN :
          LoadHlsPlaylist(url, loadChildPlaylists)
    \/ \E k \in 1..Len(fetches), content \in Contents :
          nProcess < MaxManifests /\ FetchResolved(k, content)
    \/ \E k \in 1..Len(fetches) : FetchRejected(k)

\* the chunk scheduler, with manifests arriving while it runs
Next ==
    \/ NextChunks
    \/ \E url \in {VariantUrl, DeepUrl}, content \in {"master", "media"} :
          nProcess < MaxProcess /\ ProcessHlsPlaylist(url, content)

Spec == Init /\ [][Next]_vars

\* the playlist registry alone
SpecPlaylists == Init /\ [][NextPlaylists]_vars

Located(url) == getChunkLocation(playlists, url).playlist # Undefined

\* playback: the player asks for segments of known playlists, the engine
\* delivers or fails the awaited one, and the player reports what it plays
PlayUrls == SegmentUrls \cup {Root \o <<"2">>}

NextPlayback ==
    \/ \E url \in PlayUrls :
          /\ Located(url) /\ Len(calls) < MaxPlayCalls
          /\ LoadChunk(url, TRUE, TRUE, Undefined)
    \/ \E url \in PlayUrls :
          Matches(World, url) /\ FileLoaded(url, Undefined)
    \/ \E url \in PlayUrls :
          Matches(World, url) /\ FileError(url, Undefined)
    \/ \E url \in {Undefined} \cup PlayUrls : SetCurrentChunk(url)
    \/ \E url \in {VariantUrl, DeepUrl}, content \in {"master", "media"} :
          nProcess < MaxProcess /\ ProcessHlsPlaylist(url, content)

SpecPlayback == Init /\ [][NextPlayback]_vars

-----------------------------------------------------------------------------
(* The scheduler under fair scheduling: the event loop runs every timer    *)
(* that is due, and the engine reports on the chunk that is awaited.  The  *)
(* callers pass both callbacks and ask for segments of one playlist, whose *)
(* manifest may arrive late.                                               *)

FairUrls == {Root \o <<"0">>, Root \o <<"1">>}

FairReactions == {Undefined} \cup FairUrls

AnyTimer ==
    \E t \in timers :
        RetryTimer(t) \/ \E react \in FairReactions : ErrorTimer(t, react)

ActiveEvent ==
    \E url \in FairUrls, react \in FairReactions :
        /\ Matches(World, url)
        /\ \/ FileLoaded(url, react)
           \/ FileError(url, react)
           \/ FileAbort(url, react)

StrayEvent ==
    \E url \in FairUrls :
        /\ ~Matches(World, url)
        /\ \/ FileLoaded(url, Undefined)
           \/ FileError(url, Undefined)
           \/ FileAbort(url, Undefined)

FairNext ==
    \/ \E url \in FairUrls, retriesArg \in RetryArgs :
          Len(calls) < MaxCalls /\ LoadChunk(url, TRUE, TRUE, retriesArg)
    \/ AnyTimer
    \/ ActiveEvent
    \/ StrayEvent
    \/ \E url \in FairUrls : AbortChunk(url)
    \/ nProcess < 1 /\ ProcessHlsPlaylist(VariantUrl, "media")

FairSpec ==
    Init /\ [][FairNext]_vars /\ WF_vars(AnyTimer) /\ WF_vars(ActiveEvent)

-----------------------------------------------------------------------------
(* Claims.                                                                 *)

Ids == 1..Len(calls)

HasCallbacks(c) == calls[c].onSuccess /\ calls[c].onError

\* nothing is pending: no active request and no timer
Quiescent == chunk = Undefined /\ timers = {}

\* C1: for every loadChunk call, onSuccess and onError together are invoked
\* at most once, whatever requests, aborts, timers and engine events follow.
C1_AtMostOnce == \A c \in Ids : Len(invoked[c]) <= 1

\* two calls for one url, each answered once by its own event
C1_Witness ==
    \E c \in Ids, d \in Ids :
        /\ c < d /\ calls[c].url = calls[d].url
        /\ invoked[c] = <<"success">> /\ invoked[d] = <<AbortMessage>>

\* C2 as stated: every call that passes callbacks has exactly one of them
\* invoked in the end, so once nothing is pending each call has had one.
C2_Original ==
    Quiescent => \A c \in Ids : HasCallbacks(c) => Len(invoked[c]) = 1

Discarded(c) == fate[c] \in {"superseded", "aborted", "clobbered"}

C2_Settled(c) == Len(invoked[c]) = 1 \/ Discarded(c)

\* C2 amended: every call that passes callbacks eventually either has exactly
\* one of them invoked or has been discarded without notification (superseded
\* by a later located request, cleared by abortChunk, or cleared at the end of
\* the handler whose callback issued it); a discarded call has none invoked
\* after it was discarded, and no call ever has more than one.
C2_EventuallySettled ==
    /\ \A c \in 1..MaxCalls :
          (c \in Ids /\ HasCallbacks(c)) ~> (c \in Ids /\ C2_Settled(c))
    /\ [](\A c \in Ids : Len(invoked[c]) <= 1)
    /\ [][\A c \in Ids : Discarded(c) => invoked'[c] = invoked[c]]_vars

\* a superseded, an aborted and an answered call
C2_Witness ==
    \E c \in Ids, d \in Ids :
        /\ HasCallbacks(c) /\ HasCallbacks(d)
        /\ fate[c] \in {"superseded", "aborted"} /\ invoked[c] = <<>>
        /\ Len(invoked[d]) = 1 /\ Quiescent

\* C3: a located request hands the loader exactly one batch: one descriptor
\* per segment from the located index to the end of the playlist, in segment
\* order, the k-th with the absolute url of segment i+k and priority base+k,
\* base = max(0, queue length - 1) after the continuity update, under the
\* playlist's swarm id and with the requested url as the primary hint.
C3_BatchOf(b) ==
    LET loc == getChunkLocation(playlists, b.loadUrl)
        P == Get(loc.playlist)
        i == loc.chunkIndex
        n == Len(P.manifest.segments)
        base == IF Len(playQueue) > 1 THEN Len(playQueue) - 1 ELSE 0
    IN  /\ loc.playlist # Undefined
        /\ b.loadUrl = prevLoadUrl
        /\ Len(b.files) = n - i
        /\ \A k \in 0..(n - i - 1) :
              /\ b.files[k + 1].url = getChunkAbsoluteUrl(P, i + k)
              /\ b.files[k + 1].priority = base + k
        /\ b.swarmId = getSwarmId(playlists, P)

C3_OneBatch ==
    /\ [](\A k \in 1..Len(out) :
            out[k].loadUrl # Undefined => Len(out) = 1 /\ C3_BatchOf(out[k]))
    /\ [][chunk' # Undefined /\ chunk' # chunk
            => Len(out') = 1 /\ out'[1].loadUrl = Get(chunk').url]_vars

\* the third request of a run of loaded chunks: its batch starts at priority 1
C3_Witness ==
    /\ Len(out) = 1 /\ out[1].loadUrl = Root \o <<"2">>
    /\ out[1].files = <<[url |-> Root \o <<"2">>, priority |-> 1]>>
    /\ out[1].swarmId = VariantUrl

\* the first of the last two segments of a variant the master lists second
C3_WitnessVariant ==
    /\ Len(out) = 1 /\ out[1].loadUrl = Root \o <<"d", "/", "1">>
    /\ out[1].files = <<[url |-> Root \o <<"d", "/", "1">>, priority |-> 0],
                        [url |-> Root \o <<"d", "/", "2">>, priority |-> 1]>>
    /\ out[1].swarmId = VariantUrl \o <<"+", "1">>

\* the call c is, or has ended, on the miss path
Missing(c) == fate[c] \in {"retrying", "notfound"}

\* a step in which loadChunk runs for call c (first or as a retry), does not
\* locate its url, and no handler runs around it
C4_MissStep(c) ==
    /\ c \in DOMAIN fate' /\ fate'[c] \in {"retrying", "notfound"}
    /\ IF c \in Ids
       THEN attempts'[c] = attempts[c] + 1 /\ invoked' = invoked
       ELSE invoked' = Append(invoked, <<>>)

\* a step in which the error timer of call c reports, and the callback does
\* not ask for another chunk
C4_ReportStep(c) ==
    /\ c \in Ids /\ fate[c] = "notfound" /\ calls' = calls
    /\ invoked'[c] # invoked[c]

\* a step in which a retry of call c finds its url
C4_FoundStep(c) ==
    /\ c \in Ids /\ attempts'[c] = attempts[c] + 1
    /\ getChunkLocation(playlists, calls[c].url).playlist # Undefined

\* C4: a call whose url stays in no known playlist is re-attempted exactly
\* as often as its retries argument says (once by default), then its onError
\* is invoked exactly once with the not-found message; the miss path sets no
\* active request, submits no batch and leaves the play queue and the last
\* requested url alone; a retry that finds the url is a located request.
C4_MissPath ==
    /\ [](\A c \in Ids :
            /\ attempts[c] <= calls[c].retries
            /\ fate[c] = "notfound" => attempts[c] = calls[c].retries
            /\ invoked[c] # <<>> /\ Missing(c)
                 => invoked[c] = <<NotFoundMessage>> /\ fate[c] = "notfound")
    /\ [][\A c \in 1..MaxCalls :
            /\ C4_MissStep(c) \/ C4_ReportStep(c)
                 => /\ UNCHANGED <<chunk, playQueue, prevLoadUrl>>
                    /\ out' = <<>>
            /\ C4_FoundStep(c)
                 => /\ chunk' = Some([url |-> calls[c].url, id |-> c])
                    /\ prevLoadUrl' = calls[c].url
                    /\ Len(out') = 1 /\ out'[1].loadUrl = calls[c].url
                    /\ invoked' = invoked]_vars
    /\ \A c \in 1..MaxCalls :
          (c \in Ids /\ Missing(c))
             ~> (c \in Ids /\ (~Missing(c) \/ invoked[c] = <<NotFoundMessage>>))

\* a call given one retry, retried once and then told that nothing was found
C4_Witness ==
    \E c \in Ids :
        /\ calls[c].retries = 1 /\ attempts[c] = 1
        /\ invoked[c] = <<NotFoundMessage>>
        /\ chunk = Undefined /\ prevLoadUrl = Undefined /\ playQueue = <<>>

\* a retry that found its url once the manifest had arrived
C4_WitnessFound ==
    \E c \in Ids :
        /\ attempts[c] = 1 /\ fate[c] = "active"
        /\ chunk = Some([url |-> calls[c].url, id |-> c])

\* What holds of abortChunk: abortChunk(u) while the active request is for
\* u clears it, and from then on a loaded, error or aborted event for u
\* invokes no callback and leaves the play queue alone, until loadChunk runs
\* again for u and finds it, be it called by the player or by a retry timer
\* (u is in abortedUrls for exactly that long).
C5_AbortSilences ==
    [][\A u \in ChunkUrls :
         /\ Matches(World, u) /\ AbortChunk(u)
              => chunk' = Undefined /\ u \in abortedUrls' /\ invoked' = invoked
         /\ (u \in abortedUrls
             /\ \E react \in Reactions :
                  FileLoaded(u, react) \/ FileError(u, react) \/ FileAbort(u, react))
              => /\ invoked' = invoked /\ playQueue' = playQueue
                 /\ chunk' = chunk]_vars

\* an aborted call that heard nothing, while the next call for another url
\* was answered
C5_Witness ==
    \E c \in Ids, d \in Ids :
        /\ fate[c] = "aborted" /\ HasCallbacks(c) /\ invoked[c] = <<>>
        /\ calls[c].url \in abortedUrls
        /\ c < d /\ invoked[d] = <<"success">>

-----------------------------------------------------------------------------
(* The playlist registry.                                                  *)

\* the positions of the registry entries that are master playlists
Masters == {m \in 1..Len(playlists) : playlists[m].manifest.playlists # Undefined}

\* the master: the first of them in registry order
TheMaster == playlists[CHOOSE m \in Masters : \A j \in Masters : m <= j]

\* what the claim says of the swarm id of P; Positions(P, urls) are the
\* positions of the master's child list it speaks of
C6_SwarmIdOf(P, Positions(_, _)) ==
    LET id == getSwarmId(playlists, P)
    IN  IF Masters = {} \/ TheMaster.url = P.url
        THEN id = P.url
        ELSE LET urls == getChildPlaylistAbsoluteUrls(TheMaster)
             IN  /\ \A k \in Positions(P, urls) :
                      id = TheMaster.url \o <<"+">> \o <<Digit(k - 1)>>
                 /\ Positions(P, urls) = {} => id = P.url

\* every position at which the url of P is listed
C6_Listed(P, urls) == {k \in 1..Len(urls) : urls[k] = P.url}

\* the first position at which the url of P is listed
C6_FirstListed(P, urls) ==
    {k \in C6_Listed(P, urls) : \A j \in C6_Listed(P, urls) : k <= j}

\* C6 as stated: the swarm id of a playlist P is masterUrl + "+" + k whenever
\* P is not the master and its url is the k-th (0-based) child of the master,
\* and the url of P in every other case.
C6_Original ==
    \A p \in 1..Len(playlists) : C6_SwarmIdOf(playlists[p], C6_Listed)

\* C6 amended: the swarm id of a playlist P is masterUrl + "+" + k when P is
\* not the master and k is the first (0-based) position at which the master
\* lists the url of P, and the url of P when there is no master, when P is
\* the master, or when the master does not list it.
C6_SwarmId ==
    \A p \in 1..Len(playlists) : C6_SwarmIdOf(playlists[p], C6_FirstListed)

\* a variant that the master lists first and third
C6_Witness ==
    /\ Len(playlists) = 2 /\ Masters = {1}
    /\ playlists[1].url = MasterUrl /\ playlists[2].url = VariantUrl
    /\ C6_Listed(playlists[2], getChildPlaylistAbsoluteUrls(TheMaster)) = {1, 3}
    /\ getSwarmId(playlists, playlists[2]) = MasterUrl \o <<"+", "0">>

\* a variant that the master lists second, stored before the master
C6_WitnessSecond ==
    /\ Len(playlists) = 2 /\ Masters = {2}
    /\ playlists[1].url = DeepUrl /\ playlists[2].url = MasterUrl
    /\ getSwarmId(playlists, playlists[1]) = MasterUrl \o <<"+", "1">>

\* a step that processes a manifest for url: processHlsPlaylist called
\* directly, or from loadHlsPlaylist when a fetch resolves
Processed(url, content) ==
    \/ ProcessHlsPlaylist(url, content)
    \/ \E k \in 1..Len(fetches) : fetches[k].url = url /\ FetchResolved(k, content)

SegmentIndices(P) == 0..(Len(P.manifest.segments) - 1)

\* the position of url in the registry pls
PositionOf(pls, url) == CHOOSE k \in 1..Len(pls) : pls[k].url = url

\* no entry before P, and no segment of P before i, has the url of segment i
NoEarlier(pls, P, i) ==
    /\ \A j \in SegmentIndices(P) :
          j < i => getChunkAbsoluteUrl(P, j) # getChunkAbsoluteUrl(P, i)
    /\ \A q \in 1..(PositionOf(pls, P.url) - 1) :
          \A j \in SegmentIndices(pls[q]) :
              getChunkAbsoluteUrl(pls[q], j) # getChunkAbsoluteUrl(P, i)

\* C7 as stated: after processHlsPlaylist(url, manifest) has succeeded,
\* locating the absolute url of segment i of the new playlist returns that
\* playlist and i, for every i and every registry.
C7_Original ==
    [][\A url \in PlaylistUrls, content \in Contents :
         Processed(url, content) /\ ~PlaylistThrows(url)
           => LET P == NewPlaylist(url, Parse(content))
              IN  \A i \in SegmentIndices(P) :
                     getChunkLocation(playlists', getChunkAbsoluteUrl(P, i))
                       = [playlist |-> Some(P), chunkIndex |-> i]]_vars

\* C7 amended: after processHlsPlaylist(url, manifest) has succeeded,
\* locating the absolute url of segment i of the new playlist returns a
\* playlist and an index that have this url, and returns the new playlist and
\* i when no earlier registry entry and no earlier segment of the playlist
\* has the same absolute url.
C7_Locate ==
    [][\A url \in PlaylistUrls, content \in Contents :
         Processed(url, content) /\ ~PlaylistThrows(url)
           => LET P == NewPlaylist(url, Parse(content))
              IN  \A i \in SegmentIndices(P) :
                    LET u == getChunkAbsoluteUrl(P, i)
                        loc == getChunkLocation(playlists', u)
                    IN  /\ MapGet(playlists', url) = Some(P)
                        /\ loc.playlist # Undefined
                        /\ loc.playlist \in {Some(playlists'[q]) :
                                               q \in 1..Len(playlists')}
                        /\ loc.chunkIndex \in SegmentIndices(Get(loc.playlist))
                        /\ getChunkAbsoluteUrl(Get(loc.playlist),
                                               loc.chunkIndex) = u
                        /\ NoEarlier(playlists', P, i)
                             => loc = [playlist |-> Some(P),
                                       chunkIndex |-> i]]_vars

\* a playlist whose segments 1 and 2 have one url, and whose segment 0 is
\* also segment 0 of an earlier playlist
C7_Witness ==
    /\ Len(playlists) = 2
    /\ playlists[1] = NewPlaylist(VariantUrl, Parse("media"))
    /\ playlists[2] = NewPlaylist(DeepUrl, Parse("mixed"))
    /\ getChunkAbsoluteUrl(playlists[2], 0) = Root \o <<"0">>
    /\ getChunkLocation(playlists, Root \o <<"0">>)
         = [playlist |-> Some(playlists[1]), chunkIndex |-> 0]
    /\ getChunkAbsoluteUrl(playlists[2], 2) = Root \o <<"d", "/", "1">>
    /\ getChunkLocation(playlists, Root \o <<"d", "/", "1">>)
         = [playlist |-> Some(playlists[2]), chunkIndex |-> 1]

\* C10: when a loadHlsPlaylist(url) fails, because the fetch fails or because
\* the Playlist constructor rejects the url, the registry has no entry for url
\* afterwards, even if an earlier processHlsPlaylist had stored one, every
\* other entry is as before, and the error is thrown to the caller.
C10_FailedLoad ==
    [][\A k \in 1..Len(fetches) :
         (/\ fetches[k].top
          /\ \/ FetchRejected(k)
             \/ /\ PlaylistThrows(fetches[k].url)
                /\ \E content \in Contents : FetchResolved(k, content))
           => /\ ~MapHas(playlists', fetches[k].url)
              /\ playlists' = SelectSeq(playlists,
                                        LAMBDA p : p.url # fetches[k].url)
              /\ \E t \in thrown' : t.url = fetches[k].url]_vars

\* a failed load took away the entry of the variant and left the other one
C10_Witness ==
    /\ [url |-> VariantUrl, had |-> TRUE] \in thrown
    /\ ~MapHas(playlists, VariantUrl)
    /\ MapHas(playlists, DeepUrl)

\* a load of a url without path separator failed in the constructor
C10_WitnessFormat ==
    /\ [url |-> BareUrl, had |-> FALSE] \in thrown
    /\ nProcess > 0 /\ playlists = <<>>

-----------------------------------------------------------------------------
(* Requests that follow one another.                                       *)

\* a step in which the caller's loadChunk call locates its url
LocatedRequest ==
    /\ Len(calls') = Len(calls) + 1 /\ invoked' = Append(invoked, <<>>)
    /\ track' # Undefined /\ Len(out') = 1

\* the priority base of the batch the step submits
BaseOfBatch == out'[1].files[1].priority

\* where the last url of the play queue is found now
LastLoaded == getChunkLocation(playlists, playQueue[Len(playQueue)])

C8_WitnessCleared ==
    /\ playQueue = <<>> /\ track # Undefined
    /\ Get(track).stage = "requested" /\ Get(track).chunkIndex = 2
    /\ Len(calls) = 2 /\ fate = <<"succeeded", "active">>

\* C9 as stated: a new loadChunk call for a different url while a request is
\* active replaces the active request, and from then on neither callback of
\* the request it superseded is invoked.
C9_Original ==
    /\ [][(/\ chunk # Undefined
           /\ Len(calls') = Len(calls) + 1 /\ invoked' = Append(invoked, <<>>)
           /\ calls'[Len(calls')].url # Get(chunk).url)
            => /\ chunk' = Some([url |-> calls'[Len(calls')].url,
                                 id |-> Len(calls')])
               /\ fate'[Get(chunk).id] = "superseded"]_vars
    /\ [][\A c \in Ids :
            fate[c] = "superseded" => invoked'[c] = invoked[c]]_vars

\* C9 amended: a new loadChunk call for a different url that is located
\* while a request is active replaces the active request, and from then on
\* neither callback of the request it superseded is invoked.
C9_Supersede ==
    /\ [][(/\ chunk # Undefined
           /\ Len(calls') = Len(calls) + 1 /\ invoked' = Append(invoked, <<>>)
           /\ calls'[Len(calls')].url # Get(chunk).url
           /\ Located(calls'[Len(calls')].url))
            => /\ chunk' = Some([url |-> calls'[Len(calls')].url,
                                 id |-> Len(calls')])
               /\ fate'[Get(chunk).id] = "superseded"]_vars
    /\ [][\A c \in Ids :
            fate[c] = "superseded" => invoked'[c] = invoked[c]]_vars

\* a superseded call that heard nothing, though the call for another url
\* that took its place was answered
C9_Witness ==
    \E c \in Ids, d \in Ids :
        /\ c < d /\ calls[c].url # calls[d].url
        /\ HasCallbacks(c) /\ fate[c] = "superseded" /\ invoked[c] = <<>>
        /\ invoked[d] = <<"success">>

-----------------------------------------------------------------------------
(* Processing a manifest.                                                  *)

HasSeparator(url) == \E k \in 1..Len(url) : url[k] = "/"

\* C11: processHlsPlaylist(url, content) with a url that has no path
\* separator throws the format error at once and leaves the registry as it
\* was; with a url that has one it stores the new playlist under url, in place
\* of any entry url had, and leaves every other entry alone.
C11_Process ==
    [][\A url \in PlaylistUrls, content \in Contents :
         ProcessHlsPlaylist(url, content)
           => IF HasSeparator(url)
              THEN /\ raised' = Undefined
                   /\ \A p \in 1..Len(playlists') :
                        IF playlists'[p].url = url
                        THEN /\ playlists'[p].manifest = Parse(content)
                             /\ playlists'[p].baseUrl \o
                                  SubSeq(url, Len(playlists'[p].baseUrl) + 1,
                                         Len(url)) = url
                        ELSE p <= Len(playlists) /\ playlists'[p] = playlists[p]
                   /\ Cardinality({p \in 1..Len(playlists') :
                                     playlists'[p].url = url}) = 1
                   /\ Len(playlists') = Len(playlists) +
                        (IF MapHas(playlists, url) THEN 0 ELSE 1)
              ELSE raised' = Some(FormatMessage) /\ playlists' = playlists]_vars

\* a url without separator was refused while the registry held a playlist
C11_Witness ==
    /\ raised = Some(FormatMessage)
    /\ Len(playlists) = 1 /\ nProcess = 2

\* a media manifest took the place of the master manifest stored for a url
C11_WitnessReplaced ==
    /\ raised = Undefined /\ nProcess = 2 /\ fetches = <<>> /\ nLoads = 0
    /\ playlists = <<NewPlaylist(VariantUrl, Parse("media"))>>

-----------------------------------------------------------------------------
(* Playback from a settled registry: every manifest is processed before    *)
(* the player asks for its first chunk.                                    *)

NextSteady ==
    \/ \E url \in {VariantUrl, DeepUrl}, content \in {"media", "mixed"} :
          /\ calls = <<>> /\ nProcess < MaxProcess
          /\ ProcessHlsPlaylist(url, content)
    \/ \E url \in PlayUrls :
          Len(calls) < MaxPlayCalls /\ LoadChunk(url, TRUE, TRUE, Undefined)
    \/ \E t \in timers : RetryTimer(t)
    \/ \E t \in timers : ErrorTimer(t, Undefined)
    \/ \E url \in PlayUrls, react \in {Undefined} \cup PlayUrls :
          Matches(World, url) /\ FileLoaded(url, react)
    \/ \E url \in PlayUrls :
          Matches(World, url) /\ FileError(url, Undefined)
    \/ \E url \in {Undefined} \cup PlayUrls : SetCurrentChunk(url)

SpecSteady == Init /\ [][NextSteady]_vars

\* where the k-th url of the play queue is found now
QueueLoc(k) == getChunkLocation(playlists, playQueue[k])

C12_WitnessRun ==
    playQueue = <<Root \o <<"0">>, Root \o <<"1">>, Root \o <<"2">>>>

-----------------------------------------------------------------------------
(* Playback while manifests are processed again: a variant may turn into a *)
(* master and lose its segments.                                           *)

SwitchUrls == {Root \o <<"0">>, Root \o <<"1">>, Root \o <<"d", "/", "1">>}

NextSwitch ==
    \/ \E url \in {VariantUrl, DeepUrl}, content \in {"master", "media"} :
          nProcess < MaxSwitches /\ ProcessHlsPlaylist(url, content)
    \/ \E url \in SwitchUrls :
          /\ Located(url) /\ Len(calls) < MaxCalls
          /\ LoadChunk(url, TRUE, TRUE, Undefined)
    \/ \E url \in SwitchUrls :
          Matches(World, url) /\ FileLoaded(url, Undefined)

SpecSwitch == Init /\ [][NextSwitch]_vars

\* where the url of the call the step makes is found
Requested == getChunkLocation(playlists, calls'[Len(calls')].url)

\* where the url of the located request before it is found now
Previous == getChunkLocation(playlists, prevLoadUrl)

C13_WitnessOther ==
    /\ playQueue = <<Root \o <<"0">>>> /\ LastLoaded.playlist # Undefined
    /\ chunk # Undefined /\ Get(chunk).url = Root \o <<"d", "/", "1">>
    /\ track # Undefined /\ Get(track).playlist = DeepUrl
    /\ Get(LastLoaded.playlist).url = VariantUrl

-----------------------------------------------------------------------------
(* Engine events.                                                          *)

\* what a callback invoked with what adds to the record of call id
Heard(id, given, what) ==
    invoked'[id] = IF given THEN Append(invoked[id], what) ELSE invoked[id]

\* the play queue after a handler left it as queue: as it is, or emptied by
\* a request the callback made
After(queue, react) ==
    IF react = Undefined THEN playQueue' = queue
    ELSE playQueue' \in {queue, <<>>}

\* C14: for an event whose url is that of the active request, a loaded event
\* appends the url to the play queue, invokes onSuccess and clears the active
\* request; an error event invokes onError with the error and clears it,
\* an aborted event invokes onError with "Loading aborted" and clears it,
\* both without touching the play queue; the play queue grows by nothing but
\* a matching loaded event.
C14_MatchingEvent ==
    /\ [][\A url \in ChunkUrls, react \in Reactions :
            Matches(World, url)
              => /\ FileLoaded(url, react)
                      => /\ After(Append(playQueue, url), react)
                         /\ Heard(ActiveId, calls[ActiveId].onSuccess, "success")
                         /\ chunk' = Undefined
                 /\ FileError(url, react)
                      => /\ After(playQueue, react)
                         /\ Heard(ActiveId, calls[ActiveId].onError, "error")
                         /\ chunk' = Undefined
                 /\ FileAbort(url, react)
                      => /\ After(playQueue, react)
                         /\ Heard(ActiveId, calls[ActiveId].onError, AbortMessage)
                         /\ chunk' = Undefined]_vars
    /\ [][Len(playQueue') > Len(playQueue)
            => /\ chunk # Undefined
               /\ playQueue' = Append(playQueue, Get(chunk).url)
               /\ fate'[ActiveId] = "succeeded"]_vars

\* one call answered by its loaded event, the next by an error event
C14_Witness ==
    \E c \in Ids, d \in Ids :
        /\ invoked[c] = <<"success">> /\ playQueue = <<calls[c].url>>
        /\ invoked[d] = <<"error">> /\ chunk = Undefined

\* an event for url, whose callback asks for nothing
Event(url) ==
    \/ FileLoaded(url, Undefined)
    \/ FileError(url, Undefined)
    \/ FileAbort(url, Undefined)

\* C15: a loaded, error or aborted event whose url is not that of the active
\* request, or that comes when no request is active, invokes no callback and
\* leaves the active request, the play queue, the last requested url and the
\* registry as they were; it also starts no timer and submits no batch.
C15_OtherEvent ==
    [][\A url \in ChunkUrls :
         ((chunk = Undefined \/ Get(chunk).url # url) /\ Event(url))
           => /\ UNCHANGED <<chunk, playQueue, prevLoadUrl, playlists>>
              /\ UNCHANGED <<calls, invoked, timers>>
              /\ out' = <<>>]_vars

\* a request still awaited after a step that submitted nothing, with a loaded
\* chunk of another url in the play queue
C15_Witness ==
    /\ chunk # Undefined /\ fate[Get(chunk).id] = "active"
    /\ invoked[Get(chunk).id] = <<>>
    /\ out = <<>> /\ track = Undefined
    /\ playQueue # <<>> /\ playQueue[Len(playQueue)] # Get(chunk).url

-----------------------------------------------------------------------------
(* The player reports what it plays.                                       *)

\* the positions of url in the play queue
Played(url) == {k \in 1..Len(playQueue) : playQueue[k] = url}

\* C16: setCurrentChunk(url) with url in the play queue leaves the suffix of
\* the queue that starts at url; with url not in the queue it leaves the
\* queue as it is; the batch it then submits has priority base
\* max(0, length of the resulting queue - 1).
C16_NowPlaying ==
    [][\A url \in PlayUrls :
         SetCurrentChunk(url)
           => /\ IF Played(url) = {}
                 THEN playQueue' = playQueue
                 ELSE /\ playQueue' # <<>> /\ playQueue'[1] = url
                      /\ \E k \in Played(url) :
                           playQueue' = SubSeq(playQueue, k, Len(playQueue))
              /\ \A b \in 1..Len(out') :
                   out'[b].files[1].priority
                     = IF Len(playQueue') > 1 THEN Len(playQueue') - 1 ELSE 0]_vars

\* segments 0, 1 and 2 were loaded in turn, the player reported segment 1,
\* and the batch then submitted starts at priority 1
C16_Witness ==
    /\ Len(calls) = 3 /\ calls[1].url = Root \o <<"0">>
    /\ fate = <<"succeeded", "succeeded", "succeeded">>
    /\ playQueue = <<Root \o <<"1">>, Root \o <<"2">>>>
    /\ Len(out) = 1 /\ out[1].loadUrl = Undefined
    /\ out[1].files = <<[url |-> Root \o <<"2">>, priority |-> 1]>>

\* the step submits one batch without loadUrl, from where the last requested
\* url is found to the end of that playlist, and leaves the request alone
Resubmitted ==
    LET P == Get(Previous.playlist)
        n == Len(P.manifest.segments)
    IN  /\ Len(out') = 1 /\ out'[1].loadUrl = Undefined
        /\ Len(out'[1].files) = n - Previous.chunkIndex
        /\ out'[1].files[1].url = prevLoadUrl
        /\ \A k \in 1..(n - Previous.chunkIndex) :
              out'[1].files[k].url
                = getChunkAbsoluteUrl(P, Previous.chunkIndex + k - 1)
        /\ out'[1].swarmId = getSwarmId(playlists, P)
        /\ UNCHANGED <<chunk, prevLoadUrl>>

\* the step submits nothing and changes nothing
NoOp ==
    /\ out' = <<>>
    /\ UNCHANGED <<playlists, chunk, prevLoadUrl, playQueue, calls, invoked,
                   timers>>

\* C17 as stated: every setCurrentChunk call, with or without a url, made
\* after a located request submits one batch from the last requested chunk's
\* location to the end of its playlist, without loadUrl and without touching
\* the active request; before any located request it is a no-op.
C17_Original ==
    [][\A url \in {Undefined} \cup PlayUrls :
         SetCurrentChunk(url)
           => IF prevLoadUrl # Undefined THEN Resubmitted ELSE NoOp]_vars

\* C17 amended: every setCurrentChunk call with a url, made after a located
\* request whose url is still found, submits one batch from where that url is
\* found to the end of its playlist, without loadUrl and without touching the
\* active request; a call without a url, or before any located request, is a
\* no-op; a call with a url made when the last requested url is found nowhere
\* submits nothing and leaves the active request alone.
C17_Resubmit ==
    [][\A url \in {Undefined} \cup PlayUrls :
         SetCurrentChunk(url)
           => CASE url = Undefined \/ prevLoadUrl = Undefined -> NoOp
                [] url # Undefined /\ Previous.playlist # Undefined -> Resubmitted
                [] OTHER -> out' = <<>> /\ UNCHANGED <<chunk, prevLoadUrl>>]_vars

\* the player reported a url while segment 1 was awaited, and the segments
\* from 1 on were submitted again
C17_Witness ==
    /\ chunk # Undefined /\ Get(chunk).url = Root \o <<"1">>
    /\ prevLoadUrl = Root \o <<"1">>
    /\ Len(out) = 1 /\ out[1].loadUrl = Undefined
    /\ Len(out[1].files) = 2 /\ out[1].files[1].url = Root \o <<"1">>

-----------------------------------------------------------------------------
(* Errors are reported later.                                              *)

ErrorTimerOf(c) == [kind |-> "error", id |-> c, retries |-> 0]

\* C18: loadChunk, called by the player or run again by a retry timer, never
\* invokes onSuccess or onError before it returns; when it finds the url
\* nowhere and no retry is left it only schedules the report, and the
\* not-found message reaches onError in a later step of its own.
C18_Asynchronous ==
    /\ [][\A url \in ChunkUrls, callbacks \in BOOLEAN, retriesArg \in RetryArgs :
            (/\ Len(calls') = Len(calls) + 1
             /\ calls'[Len(calls')].url = url
             /\ calls'[Len(calls')].onError = callbacks
             /\ LoadChunk(url, callbacks, callbacks, retriesArg))
              => invoked' = Append(invoked, <<>>)]_vars
    /\ [][\A t \in timers : RetryTimer(t) => invoked' = invoked]_vars
    /\ [][\A c \in DOMAIN fate' :
            (fate'[c] = "notfound" /\ (c \in Ids => fate[c] # "notfound"))
              => /\ invoked'[c] = <<>>
                 /\ calls'[c].onError => ErrorTimerOf(c) \in timers']_vars
    /\ [][\A c \in Ids :
            (invoked'[c] # invoked[c] /\ fate[c] \in {"retrying", "notfound"})
              => /\ fate[c] = "notfound" /\ ErrorTimerOf(c) \in timers
                 /\ ErrorTimerOf(c) \notin timers'
                 /\ invoked'[c] = <<NotFoundMessage>>]_vars

\* a call that found its url nowhere, with its report still due
C18_Witness ==
    \E c \in Ids :
        /\ calls[c].onError /\ fate[c] = "notfound" /\ invoked[c] = <<>>
        /\ ErrorTimerOf(c) \in timers /\ attempts[c] = calls[c].retries

-----------------------------------------------------------------------------
(* Retry timers of calls that the player has left behind.                  *)

\* the calls whose url loadChunk has found, at once or on a retry
WasLocated(c) == fate[c] \notin {"issued", "retrying", "notfound"}

\* C19: an active request belongs to the latest issued call among those
\* that were located, and the retry timer of a call never changes the active
\* request, the last requested url or the play queue once a call issued
\* after it has been located.
C19_Original ==
    /\ [](chunk # Undefined
            => \A c \in Ids : WasLocated(c) => c <= Get(chunk).id)
    /\ [][\A t \in timers :
            (RetryTimer(t) /\ \E d \in Ids : d > t.id /\ WasLocated(d))
              => UNCHANGED <<chunk, prevLoadUrl, playQueue>>]_vars

\* url was aborted and no call for it has been issued since the aborted one
Silenced(url) ==
    \E c \in Ids :
        /\ fate[c] = "aborted" /\ calls[c].url = url
        /\ \A d \in Ids : d > c => calls[d].url # url

\* C5: abortChunk(u) while the active request is for u clears it, and from
\* then on a loaded, error or aborted event for u invokes no callback and
\* leaves the play queue alone, as long as no new call for u is issued.
C5_Original ==
    [][\A url \in ChunkUrls :
         /\ Matches(World, url) /\ AbortChunk(url)
              => chunk' = Undefined /\ invoked' = invoked
         /\ Silenced(url) /\ Event(url)
              => invoked' = invoked /\ playQueue' = playQueue]_vars

-----------------------------------------------------------------------------
(* Requests made from inside a callback.                                   *)

\* the event for url is handled and its callback calls loadChunk(react)
EventReacting(url, react) ==
    /\ Matches(World, url)
    /\ Len(calls') = Len(calls) + 1
    /\ calls'[Len(calls')].url = react
    /\ \/ FileLoaded(url, react)
       \/ FileError(url, react)
       \/ FileAbort(url, react)

\* C20: when the callback of a matching event calls loadChunk for a url that is located, the request of that call is the active request once the handler has finished, and no call ever loses its request to the end of a handler that ran for another call.
C20_Original ==
    /\ [][\A url \in ChunkUrls, react \in ChunkUrls :
            (EventReacting(url, react)
               /\ fate'[Len(calls')] \notin {"issued", "retrying", "notfound"})
              => chunk' # Undefined /\ Get(chunk').id = Len(calls')]_vars
    /\ [](\A c \in Ids : fate[c] # "clobbered")


=============================================================================
